---- MODULE Spec2Model ----
(***************************************************************************)
(* Model of tidal_dl_ng/helper/mpegdash_patch.py: the activation routine   *)
(* apply_mpegdash_patch (an idempotent monkey-patch of                     *)
(* mpegdash.utils.parse_attr_value guarded by the module flag _patched)    *)
(* and the replacement conversion function patched_parse_attr_value with   *)
(* its helpers _safe_int, _convert_list and _convert_single.               *)
(***************************************************************************)
EXTENDS Integers, Sequences, FiniteSets, TLC

(***************************************************************************)
(* Bounds of the model.                                                    *)
(***************************************************************************)
\* Number of apply_mpegdash_patch calls in one behaviour.
MaxCalls == 3
\* Longest raw attribute value, in characters.
MaxLen == 4

\* The callers of apply_mpegdash_patch.
Threads == {1, 2}

VARIABLES
    _patched,          \* module global _patched (line 17)
    parse_attr_value,  \* the function bound to mpegdash.utils.parse_attr_value
    closures,          \* number of patched_parse_attr_value closures created
    calls,             \* number of apply_mpegdash_patch calls begun
    pc,                \* pc[t]: position of caller t inside apply_mpegdash_patch
    frame,             \* frame[t]: locals and bookkeeping of caller t's call
    last,              \* the most recently completed call and its end state
    log,               \* the last line handed to the module logger
    call,              \* arguments of the last patched_parse_attr_value call
    result             \* what that call returned or raised

vars == <<_patched, parse_attr_value, closures, calls, pc, frame, last, log,
          call, result>>

(***************************************************************************)
(* Function objects.  The function mpegdash ships is "native"; every       *)
(* execution of the def statement at line 73 creates a new function        *)
(* object, identified by the order of creation.  The closure's free        *)
(* variables are module globals only (_convert_list, _convert_single): it  *)
(* holds no reference to the function it overwrites, hence it wraps        *)
(* nothing.                                                                *)
(***************************************************************************)
NativeFn == [fn |-> "native", id |-> 0, wraps |-> "nothing"]

\* Faulty variant: the replacement keeps the function it overwrites and
\* delegates to it.
NewClosure_wrapping(n, overwritten) ==
    [fn |-> "patched_parse_attr_value", id |-> n, wraps |-> overwritten.fn]

NewClosure(n, overwritten) ==
    [fn |-> "patched_parse_attr_value", id |-> n, wraps |-> "nothing"]

IsReplacement(f) == f.fn = "patched_parse_attr_value"

(***************************************************************************)
(* What the environment does to one activation: the import at line 71      *)
(* succeeds ("ok"), raises ImportError ("missing"), raises some other      *)
(* Exception while the package executes ("broken"), or the import succeeds *)
(* and the assignment at line 84 raises ("frozen").                        *)
(***************************************************************************)
Environments == {"ok", "missing", "broken", "frozen"}

NoFrame == [env |-> "none", entry_patched |-> FALSE, entry_fn |-> NativeFn,
            entry_closures |-> 0, local |-> NativeFn, outcome |-> "none",
            raised |-> "none"]

NoCall == [xmlnode |-> <<>>, attr_name |-> "",
           value_type |-> [kind |-> "none", t |-> "none"]]

NoResult == [ret |-> [tag |-> "nothing", v |-> 0], log |-> "none", conversions |-> 0]

ActivationInit ==
    /\ _patched = FALSE
    /\ parse_attr_value = NativeFn
    /\ closures = 0
    /\ calls = 0
    /\ pc = [t \in Threads |-> "idle"]
    /\ frame = [t \in Threads |-> NoFrame]
    /\ last = [valid |-> FALSE, env |-> "none", outcome |-> "none",
               patched |-> FALSE, fn |-> NativeFn]
    /\ log = "none"

Init ==
    /\ ActivationInit
    /\ call = NoCall
    /\ result = NoResult

(***************************************************************************)
(* apply_mpegdash_patch, one step per statement that reads or writes       *)
(* shared state.                                                           *)
(***************************************************************************)
\* A caller enters apply_mpegdash_patch (line 58).
Enter(t) ==
    /\ pc[t] = "idle"
    /\ calls < MaxCalls
    /\ calls' = calls + 1
    /\ \E e \in Environments :
          frame' = [frame EXCEPT ![t] =
                       [env |-> e, entry_patched |-> _patched,
                        entry_fn |-> parse_attr_value,
                        entry_closures |-> closures, local |-> NativeFn,
                        outcome |-> "none", raised |-> "none"]]
    /\ pc' = [pc EXCEPT ![t] = "check"]
    /\ UNCHANGED <<_patched, parse_attr_value, closures, last, log, call, result>>

\* Callers one after the other: a call begins when no other call is active.
Begin(t) ==
    /\ \A u \in Threads : pc[u] = "idle"
    /\ Enter(t)

\* The statement that ends the call: return, with the outcome recorded.
Return(t, how) ==
    /\ pc' = [pc EXCEPT ![t] = "idle"]
    /\ frame' = [frame EXCEPT ![t].outcome = how, ![t].raised = "none"]
    /\ last' = [valid |-> TRUE, env |-> frame[t].env, outcome |-> how,
                patched |-> _patched, fn |-> parse_attr_value]

\* Faulty variant: the guard on _patched is missing.
Check_always(t) ==
    /\ pc[t] = "check"
    /\ pc' = [pc EXCEPT ![t] = "import"]
    /\ UNCHANGED <<frame, last>>
    /\ UNCHANGED <<_patched, parse_attr_value, closures, calls, log, call, result>>

\* Lines 67-68: if _patched: return.
Check(t) ==
    /\ pc[t] = "check"
    /\ IF _patched
         THEN Return(t, "early")
         ELSE /\ pc' = [pc EXCEPT ![t] = "import"]
              /\ UNCHANGED <<frame, last>>
    /\ UNCHANGED <<_patched, parse_attr_value, closures, calls, log, call, result>>

\* Faulty variant: the flag is set before the import is attempted.
Import_flag_first(t) ==
    /\ pc[t] = "import"
    /\ _patched' = TRUE
    /\ pc' = [pc EXCEPT ![t] =
                 CASE frame[t].env = "missing" -> "except_import"
                   [] frame[t].env = "broken" -> "except_other"
                   [] OTHER -> "install"]
    /\ UNCHANGED <<parse_attr_value, closures, calls, frame, last, log, call, result>>

\* Line 71: from mpegdash import utils as mpegdash_utils.
Import(t) ==
    /\ pc[t] = "import"
    /\ pc' = [pc EXCEPT ![t] =
                 CASE frame[t].env = "missing" -> "except_import"
                   [] frame[t].env = "broken" -> "except_other"
                   [] OTHER -> "install"]
    /\ UNCHANGED <<_patched, parse_attr_value, closures, calls, frame, last,
                   log, call, result>>

\* Faulty variant: the closure is created and never bound to the library.
Install_unbound(t) ==
    /\ pc[t] = "install"
    /\ closures' = closures + 1
    /\ frame' = [frame EXCEPT ![t].local = NewClosure(closures + 1, parse_attr_value)]
    /\ pc' = [pc EXCEPT ![t] = IF frame[t].env = "frozen" THEN "except_other"
                                ELSE "set_flag"]
    /\ UNCHANGED <<_patched, parse_attr_value, calls, last, log, call, result>>

\* Lines 73-84: the def statement creates the closure, the assignment binds it
\* to mpegdash_utils.parse_attr_value (or raises, binding nothing).
Install(t) ==
    /\ pc[t] = "install"
    /\ closures' = closures + 1
    /\ frame' = [frame EXCEPT ![t].local = NewClosure(closures + 1, parse_attr_value)]
    /\ IF frame[t].env = "frozen"
         THEN /\ pc' = [pc EXCEPT ![t] = "except_other"]
              /\ UNCHANGED parse_attr_value
         ELSE /\ pc' = [pc EXCEPT ![t] = "set_flag"]
              /\ parse_attr_value' = NewClosure(closures + 1, parse_attr_value)
    /\ UNCHANGED <<_patched, calls, last, log, call, result>>

\* Line 85: _patched = True.
SetFlag(t) ==
    /\ pc[t] = "set_flag"
    /\ _patched' = TRUE
    /\ pc' = [pc EXCEPT ![t] = "log_ok"]
    /\ UNCHANGED <<parse_attr_value, closures, calls, frame, last, log, call, result>>

\* Line 86: logger.debug("mpegdash patch applied successfully"), then the
\* function ends.  Calls of the logger hand a line over and do not raise.
LogApplied(t) ==
    /\ pc[t] = "log_ok"
    /\ log' = "debug: mpegdash patch applied successfully"
    /\ Return(t, "applied")
    /\ UNCHANGED <<_patched, parse_attr_value, closures, calls, call, result>>

\* Lines 88-89: except ImportError: logger.warning(...).
ExceptImportError(t) ==
    /\ pc[t] = "except_import"
    /\ log' = "warning: Could not import mpegdash, patch not applied"
    /\ Return(t, "import_error")
    /\ UNCHANGED <<_patched, parse_attr_value, closures, calls, call, result>>

\* Lines 90-91: except Exception as e: logger.warning(...).
ExceptException(t) ==
    /\ pc[t] = "except_other"
    /\ log' = "warning: Failed to apply mpegdash patch"
    /\ Return(t, "failed")
    /\ UNCHANGED <<_patched, parse_attr_value, closures, calls, call, result>>

Step(t) ==
    \/ Check(t)
    \/ Import(t)
    \/ Install(t)
    \/ SetFlag(t)
    \/ LogApplied(t)
    \/ ExceptImportError(t)
    \/ ExceptException(t)

\* Activation called by one caller at a time.
Next ==
    \/ \E t \in Threads : Begin(t)
    \/ \E t \in Threads : Step(t)

Spec == Init /\ [][Next]_vars

\* Activation called by callers that interleave statement by statement.
NextRace ==
    \/ \E t \in Threads : Enter(t)
    \/ \E t \in Threads : Step(t)

SpecRace == Init /\ [][NextRace]_vars

(***************************************************************************)
(* Raw attribute values: strings over a small alphabet holding digits, a   *)
(* letter, the sign and both separators of the split at line 31.           *)
(***************************************************************************)
Chars == {"0", "1", "m", "-", ",", " "}

Strings == UNION {[1..n -> Chars] : n \in 0..MaxLen}

AttrNames == {"id", "group"}

\* The declared element and scalar types.  bytes(str) always raises
\* TypeError; decimal.Decimal(str) raises decimal.InvalidOperation, an
\* ArithmeticError, on a string that is no number.
Types == {"int", "float", "str", "bool", "bytes", "Decimal"}

\* Type descriptors: a type, or a list holding one type or none ([]).
ValueTypes ==
    [kind : {"type"}, t : Types] \cup [kind : {"list"}, t : Types \cup {"none"}]

\* xmlnode.attributes: a mapping from the names of the attributes the node
\* carries to their values (nodes with at most the attribute "id").
Nodes == {[n \in {} |-> <<>>]} \cup {[n \in {"id"} |-> s] : s \in Strings}

(***************************************************************************)
(* Python values and raised exceptions.                                    *)
(***************************************************************************)
None == [tag |-> "None", v |-> 0]

Raise(exc) == [tag |-> "raise", v |-> exc]

IsRaise(r) == r.tag = "raise"

\* except (ValueError, TypeError), lines 24, 32 and 48.
Handled(r) == IsRaise(r) /\ r.v \in {"ValueError", "TypeError"}

(***************************************************************************)
(* The constructors the code calls on a str.  int, float and Decimal strip *)
(* surrounding whitespace, take an optional sign and then need one or more *)
(* digits up to the end of the string (over Chars the three grammars       *)
(* coincide: it has no "_", ".", "e", "+" and no letters of "inf"/"nan").  *)
(* Numeric results are compared by value, so -0 is 0.                      *)
(***************************************************************************)
IsDigit(c) == c \in {"0", "1"}

DigitValue(c) == IF c = "1" THEN 1 ELSE 0

RECURSIVE LStrip(_)
LStrip(s) == IF s # <<>> /\ Head(s) = " " THEN LStrip(Tail(s)) ELSE s

RECURSIVE RStrip(_)
RStrip(s) ==
    IF s # <<>> /\ s[Len(s)] = " " THEN RStrip(SubSeq(s, 1, Len(s) - 1)) ELSE s

RECURSIVE DigitsValue(_)
DigitsValue(d) ==
    IF d = <<>> THEN 0
    ELSE DigitsValue(SubSeq(d, 1, Len(d) - 1)) * 10 + DigitValue(d[Len(d)])

\* [ok, v]: whether the string is a decimal integer numeral, and its value.
ParseNumber(s) ==
    LET body == RStrip(LStrip(s))
        neg == body # <<>> /\ Head(body) = "-"
        digits == IF neg THEN Tail(body) ELSE body
        ok == digits # <<>> /\ \A i \in 1..Len(digits) : IsDigit(digits[i])
    IN  IF ok
          THEN [ok |-> TRUE,
                v |-> IF neg THEN 0 - DigitsValue(digits) ELSE DigitsValue(digits)]
          ELSE [ok |-> FALSE, v |-> 0]

\* value_type(attr_val) / attr_type(elem): the constructor of type T on a str.
Construct(T, s) ==
    CASE T = "int" ->
           IF ParseNumber(s).ok THEN [tag |-> "int", v |-> ParseNumber(s).v]
           ELSE Raise("ValueError")
      [] T = "float" ->
           IF ParseNumber(s).ok THEN [tag |-> "float", v |-> ParseNumber(s).v]
           ELSE Raise("ValueError")
      [] T = "Decimal" ->
           IF ParseNumber(s).ok THEN [tag |-> "Decimal", v |-> ParseNumber(s).v]
           ELSE Raise("InvalidOperation")
      [] T = "bool" -> [tag |-> "bool", v |-> s # <<>>]
      [] T = "bytes" -> Raise("TypeError")
      [] OTHER -> [tag |-> "str", v |-> s]

\* re.split(r"[, ]", attr_val): cut at every comma and every space, empty
\* pieces kept.
IsSeparator(c) == c \in {",", " "}

\* Faulty variant: the pattern is "," alone.
RECURSIVE re_split_comma(_)
re_split_comma(s) ==
    LET cuts == {i \in 1..Len(s) : s[i] = ","}
    IN  IF cuts = {} THEN <<s>>
        ELSE LET i == CHOOSE c \in cuts : \A d \in cuts : c <= d
             IN  <<SubSeq(s, 1, i - 1)>> \o re_split_comma(SubSeq(s, i + 1, Len(s)))

RECURSIVE re_split(_)
re_split(s) ==
    LET cuts == {i \in 1..Len(s) : IsSeparator(s[i])}
    IN  IF cuts = {} THEN <<s>>
        ELSE LET i == CHOOSE c \in cuts : \A d \in cuts : c <= d
             IN  <<SubSeq(s, 1, i - 1)>> \o re_split(SubSeq(s, i + 1, Len(s)))

(***************************************************************************)
(* The helpers.  Each returns [ret, log, conversions]: the value returned  *)
(* or the exception raised, the line handed to logger.debug ("none" when   *)
(* nothing is logged) and the number of constructor calls made.            *)
(***************************************************************************)
\* Faulty variant: the except clause is missing.
_safe_int_reraise(value) == Construct("int", value)

\* Faulty variant: a failed conversion yields 0.
_safe_int_zero(value) ==
    LET r == Construct("int", value)
    IN  IF Handled(r) THEN [tag |-> "int", v |-> 0] ELSE r

\* Faulty variant: value.isdigit() decides, so signed and padded numbers
\* are refused.
_safe_int_isdigit(value) ==
    IF value # <<>> /\ \A i \in 1..Len(value) : IsDigit(value[i])
      THEN Construct("int", value)
      ELSE None

\* Lines 20-25.
_safe_int(value) ==
    LET r == Construct("int", value)
    IN  IF Handled(r) THEN None ELSE r

\* Faulty variant: a fragment that fails becomes None, the others stay
\* converted.
_convert_list_per_element(attr_val, value_type) ==
    LET attr_type == IF value_type.t # "none" THEN value_type.t ELSE "str"
        elems == re_split(attr_val)
        made == [i \in 1..Len(elems) |-> Construct(attr_type, elems[i])]
        failing == {i \in 1..Len(elems) : IsRaise(made[i]) /\ ~Handled(made[i])}
        first == CHOOSE i \in failing : \A j \in failing : i <= j
    IN  IF failing = {}
          THEN [ret |-> [tag |-> "list",
                         v |-> [i \in 1..Len(elems) |->
                                  IF Handled(made[i]) THEN None ELSE made[i]]],
                log |-> "none", conversions |-> Len(elems)]
          ELSE [ret |-> made[first], log |-> "none", conversions |-> first]

\* Lines 28-33.
_convert_list(attr_val, value_type) ==
    LET attr_type == IF value_type.t # "none" THEN value_type.t ELSE "str"
        elems == re_split(attr_val)
        made == [i \in 1..Len(elems) |-> Construct(attr_type, elems[i])]
        failing == {i \in 1..Len(elems) : IsRaise(made[i])}
        first == CHOOSE i \in failing : \A j \in failing : i <= j
    IN  IF failing = {}
          THEN [ret |-> [tag |-> "list", v |-> made], log |-> "none",
                conversions |-> Len(elems)]
        ELSE IF Handled(made[first])
          THEN [ret |-> [tag |-> "list",
                         v |-> [i \in 1..Len(elems) |-> Construct("str", elems[i])]],
                log |-> "none", conversions |-> first + Len(elems)]
        ELSE [ret |-> made[first], log |-> "none", conversions |-> first]

\* Lines 36-55.
_convert_single(attr_name, attr_val, value_type) ==
    IF value_type.t = "int"
      THEN LET res == _safe_int(attr_val)
           IN  [ret |-> res,
                log |-> IF res = None
                          THEN "debug: mpegdash: Could not convert to int, using None"
                          ELSE "none",
                conversions |-> 1]
      ELSE LET r == Construct(value_type.t, attr_val)
           IN  IF Handled(r)
                 THEN [ret |-> None,
                       log |-> "debug: mpegdash: Could not convert, using None",
                       conversions |-> 1]
                 ELSE [ret |-> r, log |-> "none", conversions |-> 1]

\* Faulty variant: a missing attribute is read as the empty string and
\* converted.
patched_parse_attr_value_missing_as_empty(xmlnode, attr_name, value_type) ==
    LET attr_val == IF attr_name \in DOMAIN xmlnode THEN xmlnode[attr_name] ELSE <<>>
    IN  IF value_type.kind = "list"
          THEN _convert_list(attr_val, value_type)
          ELSE _convert_single(attr_name, attr_val, value_type)

\* Lines 73-82.
patched_parse_attr_value(xmlnode, attr_name, value_type) ==
    IF attr_name \notin DOMAIN xmlnode
      THEN [ret |-> None, log |-> "none", conversions |-> 0]
    ELSE IF value_type.kind = "list"
      THEN _convert_list(xmlnode[attr_name], value_type)
    ELSE _convert_single(attr_name, xmlnode[attr_name], value_type)

(***************************************************************************)
(* The manifest library reads an attribute through the installed           *)
(* replacement: the pending call is carried out.                           *)
(***************************************************************************)
Calls == [xmlnode : Nodes, attr_name : AttrNames, value_type : ValueTypes]

ParseAttr ==
    /\ \A t \in Threads : pc[t] = "idle"
    /\ IsReplacement(parse_attr_value)
    /\ call \in Calls
    /\ result = NoResult
    /\ LET out == patched_parse_attr_value(call.xmlnode, call.attr_name,
                                           call.value_type)
       IN  /\ result' = out
           /\ log' = IF out.log = "none" THEN log ELSE out.log
    /\ UNCHANGED <<_patched, parse_attr_value, closures, calls, pc, frame, last,
                   call>>

\* The state one successful activation by caller 1 leaves behind.
Activated ==
    /\ _patched = TRUE
    /\ parse_attr_value = NewClosure(1, NativeFn)
    /\ closures = 1
    /\ calls = 1
    /\ pc = [t \in Threads |-> "idle"]
    /\ frame = [t \in Threads |->
                  IF t = 1
                    THEN [env |-> "ok", entry_patched |-> FALSE,
                          entry_fn |-> NativeFn, entry_closures |-> 0,
                          local |-> NewClosure(1, NativeFn),
                          outcome |-> "applied", raised |-> "none"]
                    ELSE NoFrame]
    /\ last = [valid |-> TRUE, env |-> "ok", outcome |-> "applied",
               patched |-> TRUE, fn |-> NewClosure(1, NativeFn)]
    /\ log = "debug: mpegdash patch applied successfully"

\* After activation, the library is about to read some attribute.
InitParse ==
    /\ Activated
    /\ call \in Calls
    /\ result = NoResult

NextParse == ParseAttr

\* The replacement function in use, after activation.
SpecParse == InitParse /\ [][NextParse]_vars

(***************************************************************************)
(* Vocabulary of the properties, stated without the model's conversion     *)
(* operators.                                                              *)
(***************************************************************************)
\* The replacement function has been called and has ended.
Called == result # NoResult

Present == call.attr_name \in DOMAIN call.xmlnode

Raw == call.xmlnode[call.attr_name]

Declared == call.value_type

AllIdle == \A t \in Threads : pc[t] = "idle"

DecimalDigits == <<"0", "1", "2", "3", "4", "5", "6", "7", "8", "9">>

RECURSIVE Pow10(_)
Pow10(k) == IF k = 0 THEN 1 ELSE 10 * Pow10(k - 1)

\* The decimal representation of n >= 0 in exactly w digits.
ZeroPadded(n, w) == [i \in 1..w |-> DecimalDigits[((n \div Pow10(w - i)) % 10) + 1]]

\* u is an optional "-" followed by one or more decimal digits.
IsNumeral(u) ==
    /\ u # <<>>
    /\ LET d == IF u[1] = "-" THEN SubSeq(u, 2, Len(u)) ELSE u
       IN  /\ d # <<>>
           /\ \A i \in 1..Len(d) : \E k \in 1..10 : d[i] = DecimalDigits[k]

\* The numeral u denotes the integer n.
NumeralDenotes(u, n) ==
    LET d == IF u[1] = "-" THEN SubSeq(u, 2, Len(u)) ELSE u
        a == IF n < 0 THEN 0 - n ELSE n
    IN  /\ a < Pow10(Len(d))
        /\ ZeroPadded(a, Len(d)) = d
        /\ (u[1] = "-") => n <= 0
        /\ (u[1] # "-") => n >= 0

\* The places where s, blanks around it set aside, begins and ends.
Cores(s) ==
    {ab \in (1..Len(s)) \X (1..Len(s)) :
        /\ ab[1] <= ab[2]
        /\ s[ab[1]] # " " /\ s[ab[2]] # " "
        /\ \A i \in 1..Len(s) : (i < ab[1] \/ i > ab[2]) => s[i] = " "}

\* s is a numeric literal: a numeral, possibly padded with blanks.
IsNumericLiteral(s) ==
    \E ab \in Cores(s) : IsNumeral(SubSeq(s, ab[1], ab[2]))

\* The numeric literal s denotes the integer n.
Denotes(s, n) ==
    \E ab \in Cores(s) :
        /\ IsNumeral(SubSeq(s, ab[1], ab[2]))
        /\ NumeralDenotes(SubSeq(s, ab[1], ab[2]), n)

\* The fragments of s between its commas and spaces: Piece(s, k) for
\* k in 1..NPieces(s).
Cuts(s) == {i \in 1..Len(s) : s[i] = "," \/ s[i] = " "}

NPieces(s) == Cardinality(Cuts(s)) + 1

CutAt(s, k) ==
    IF k = 0 THEN 0
    ELSE IF k = NPieces(s) THEN Len(s) + 1
    ELSE CHOOSE p \in Cuts(s) : Cardinality({q \in Cuts(s) : q <= p}) = k

Piece(s, k) == SubSeq(s, CutAt(s, k - 1) + 1, CutAt(s, k) - 1)

\* The exception class with which the constructor of type T refuses a
\* string ("none": it accepts every string).
FailureClass(T) ==
    CASE T \in {"int", "float"} -> "ValueError"
      [] T = "bytes" -> "TypeError"
      [] T = "Decimal" -> "InvalidOperation"
      [] OTHER -> "none"

\* The fragment u converts to the type T.
Converts(T, u) ==
    CASE T \in {"int", "float", "Decimal"} -> IsNumericLiteral(u)
      [] T = "bytes" -> FALSE
      [] OTHER -> TRUE

\* x is the value of type T the fragment u stands for.
ConvertedAs(T, u, x) ==
    /\ x.tag = T
    /\ CASE T \in {"int", "float", "Decimal"} -> Denotes(u, x.v)
         [] T = "bool" -> x.v = (Len(u) > 0)
         [] OTHER -> x.v = u

IsListCall == Called /\ Present /\ Declared.kind = "list" /\ Declared.t \in Types

IsIntCall == Called /\ Present /\ Declared = [kind |-> "type", t |-> "int"]

\* The result is the sequence of all fragments of the raw value, as text.
AllFragmentsAsText ==
    /\ result.ret.tag = "list"
    /\ Len(result.ret.v) = NPieces(Raw)
    /\ \A k \in 1..NPieces(Raw) :
          /\ result.ret.v[k].tag = "str"
          /\ result.ret.v[k].v = Piece(Raw, k)

C4_NonNumericIntIsNone ==
    (IsIntCall /\ ~IsNumericLiteral(Raw)) =>
        /\ result.ret.tag = "None"
        /\ result.log = "debug: mpegdash: Could not convert to int, using None"
        /\ log = result.log

\* An integer attribute holding "m-1".
C4_Witness ==
    /\ IsIntCall
    /\ Raw = <<"m", "-", "1">>
    /\ result.ret.tag = "None"

(***************************************************************************)
(* C5                                                                      *)
(***************************************************************************)
\* C5: a present integer-typed attribute whose raw value is a numeric
\* literal yields exactly the integer the literal denotes.
C5_NumericIntIsItsValue ==
    (IsIntCall /\ IsNumericLiteral(Raw)) =>
        /\ result.ret.tag = "int"
        /\ Denotes(Raw, result.ret.v)

\* An integer attribute holding "-110" gives -110.
C5_Witness ==
    /\ IsIntCall
    /\ Raw = <<"-", "1", "1", "0">>
    /\ result.ret.tag = "int"
    /\ result.ret.v = 0 - 110

(***************************************************************************)
(* C6                                                                      *)
(***************************************************************************)
\* C6: for a list-typed attribute whose fragments (cut at commas and
\* spaces) all convert to the element type, the result is the sequence of
\* the converted values, one per fragment, in the original order.
C6_ListOfConverted ==
    (IsListCall /\ \A k \in 1..NPieces(Raw) : Converts(Declared.t, Piece(Raw, k))) =>
        /\ result.ret.tag = "list"
        /\ Len(result.ret.v) = NPieces(Raw)
        /\ \A k \in 1..NPieces(Raw) :
              ConvertedAs(Declared.t, Piece(Raw, k), result.ret.v[k])

\* "1 10" as a list of int gives [1, 10].
C6_Witness ==
    /\ IsListCall
    /\ Declared.t = "int"
    /\ Raw = <<"1", " ", "1", "0">>
    /\ result.ret.tag = "list"
    /\ result.ret.v = <<[tag |-> "int", v |-> 1], [tag |-> "int", v |-> 10]>>

C8_AbsentIsNone ==
    (Called /\ ~Present) =>
        /\ result.ret.tag = "None"
        /\ result.conversions = 0
        /\ result.log = "none"

\* "group" asked of a node that carries only "id", declared a list of
\* bytes.
C8_Witness ==
    /\ Called /\ ~Present
    /\ DOMAIN call.xmlnode = {"id"}
    /\ Declared = [kind |-> "list", t |-> "bytes"]
    /\ result.ret.tag = "None"

(***************************************************************************)
(* C2                                                                      *)
(***************************************************************************)
\* C2: activation is idempotent.  A call that follows a completed call made
\* under the same environment ends in the state that call ended in (flag
\* and installed function); a call that follows a successful activation
\* returns early whatever the environment: it creates and installs nothing
\* and raises nothing.
C2_Idempotent ==
    [][\A t \in Threads :
          (pc[t] # "idle" /\ pc'[t] = "idle" /\ last.valid) =>
             /\ last.env = frame[t].env =>
                   /\ _patched' = last.patched
                   /\ parse_attr_value' = last.fn
             /\ last.outcome = "applied" =>
                   /\ frame'[t].outcome = "early"
                   /\ _patched' = last.patched
                   /\ parse_attr_value' = last.fn
                   /\ closures' = frame[t].entry_closures
                   /\ frame'[t].raised = "none"]_vars

\* A second call has returned after a first, successful one.
C2_Witness ==
    /\ AllIdle
    /\ calls = 2
    /\ _patched
    /\ closures = 1
    /\ last.outcome = "early"

(***************************************************************************)
(* C3                                                                      *)
(***************************************************************************)
\* C3: an activation that fails (the import raises ImportError, or anything
\* else raises while the replacement is installed) returns without raising
\* and leaves the library's function and the flag as they were: native and
\* false.
C3_FailedActivationInert ==
    [][\A t \in Threads :
          (pc[t] \in {"except_import", "except_other"} /\ pc'[t] = "idle") =>
             /\ frame'[t].raised = "none"
             /\ parse_attr_value' = frame[t].entry_fn
             /\ parse_attr_value' = NativeFn
             /\ _patched' = FALSE
             /\ frame[t].entry_patched = FALSE]_vars

\* An activation has failed at the assignment: a closure exists, nothing is
\* installed.
C3_Witness ==
    /\ AllIdle
    /\ last.outcome = "failed"
    /\ closures = 1
    /\ ~_patched
    /\ parse_attr_value = NativeFn

(***************************************************************************)
(* C9                                                                      *)
(***************************************************************************)
\* C9: the flag is false at load; it becomes true only in the activation
\* that has just installed its replacement; while it is true the library's
\* function is a replacement; once true it stays true and the installed
\* function never changes.
C9_FlagLifecycle ==
    /\ _patched = FALSE
    /\ [](_patched => IsReplacement(parse_attr_value))
    /\ [][/\ _patched => (_patched' /\ parse_attr_value' = parse_attr_value)
          /\ (~_patched /\ _patched') =>
                \E t \in Threads :
                    /\ pc[t] = "set_flag"
                    /\ IsReplacement(frame[t].local)
                    /\ parse_attr_value = frame[t].local]_vars

\* A failed activation, then a successful one, then a third call.
C9_Witness ==
    /\ AllIdle
    /\ calls = 3
    /\ _patched
    /\ closures = 2
    /\ parse_attr_value.id = 2
    /\ last.outcome = "early"

(***************************************************************************)
(* C10                                                                     *)
(***************************************************************************)
\* C10: when activations interleave, no call raises, a call that has
\* activated leaves the flag true and a replacement installed, and no
\* replacement delegates to a function installed before it.
C10_RaceBenign ==
    /\ \A t \in Threads : frame[t].raised = "none"
    /\ parse_attr_value.wraps = "nothing"
    /\ \A t \in Threads : frame[t].local.wraps = "nothing"
    /\ \A t \in Threads :
          (pc[t] = "log_ok" \/ frame[t].outcome = "applied") =>
              _patched /\ IsReplacement(parse_attr_value)
    /\ _patched => IsReplacement(parse_attr_value)

\* Both callers read the flag as false, both installed a replacement, both
\* returned.
C10_Witness ==
    /\ AllIdle
    /\ \A t \in Threads :
          frame[t].outcome = "applied" /\ frame[t].entry_patched = FALSE
    /\ calls = 2
    /\ closures = 2
    /\ _patched
    /\ IsReplacement(parse_attr_value)

====
